---- MODULE Spec2Model ----
(***************************************************************************)
(* Model of gibvaccine (src/main.rs): the polling loop of main, its keyed  *)
(* snapshot current_locations, the change detection done with the HashMap  *)
(* entry API, the ranking (sort_by_key + allow-list filter) and the action *)
(* hook open::that guarded by is_first_run.                                *)
(***************************************************************************)
EXTENDS Integers, Sequences, FiniteSets, TLC

\* ---------------------------------------------------------------- bounds
MaxCount == 2     \* num_available ranges over 0..MaxCount
MaxLen == 2       \* longest list get_available returns
MaxCycles == 3    \* loop iterations explored
MaxBlocks == 2    \* longest document of several booking blocks

\* ------------------------------------------------------- program constants
MUNICIPALITIES == {"Ale", "Göteborg", "Kungälv", "Mölndal"}

\* ------------------------------------------------------------ input domain
\* one allow-listed name and a name that differs from it in case only
Munis == {"Ale", "ale"}
Orgs == {"A"}
Links == {"L1", "L2"}

Location == [municipality : Munis, organization : Orgs,
             booking_link : Links, num_available : 0..MaxCount]

\* variant: the key does not tell municipality from organization
key_Unordered(l) == {l.municipality, l.organization}

key(l) == <<l.municipality, l.organization>>

SeqsUpTo(S, n) == UNION {[1..k -> S] : k \in 0..n}

\* what get_available can return on success
Pages == SeqsUpTo(Location, MaxLen)

\* pages whose municipality and organization are drawn from the same names,
\* so that keys can differ in case only or in the order of their parts
KeyNames == {"Ale", "ale"}
KeyLocation == [municipality : KeyNames, organization : KeyNames,
                booking_link : {"L1"}, num_available : {0, 1}]
KeyPages == SeqsUpTo(KeyLocation, MaxLen)

VARIABLES pc, cycle, is_first_run, current_locations, locations,
          changed_locations, filtered_locations, printed, opened,
          body,        \* the booking blocks of the document get_available parses
          last_seen,   \* history: key -> count of the last record extracted for it
          absent,      \* history: keys seen before that the latest page lacked
          reappeared   \* history: keys of this page that the page before lacked

vars == <<pc, cycle, is_first_run, current_locations, locations,
          changed_locations, filtered_locations, printed, opened,
          body, last_seen, absent, reappeared>>

KeysOf(L) == {key(L[i]) : i \in 1..Len(L)}
Last(J) == CHOOSE j \in J : \A x \in J : x <= j
LastOf(L, k) == Last({i \in 1..Len(L) : key(L[i]) = k})

\* ------------------------------------------------------------ record parser
\* A text is a sequence of one-character strings.  A booking block is given by
\* the elements each selector finds in it, in document order: the texts of
\* its h3 elements, its a elements (each <<>> or <<href>>) and the texts of its
\* span elements.
IsSpace(c) == c \in {" ", "\n"}
AsciiDigits == <<"0", "1", "2", "3", "4", "5", "6", "7", "8", "9">>
IsAsciiDigit(c) == \E i \in 1..10 : AsciiDigits[i] = c
\* \d is Unicode-aware: it also matches decimal digits outside ASCII, such as
\* ARABIC-INDIC DIGIT THREE, written here by its code point
ArabicIndicThree == "U+0663"
IsDigit(c) == IsAsciiDigit(c) \/ c = ArabicIndicThree
DigitValue(c) == (CHOOSE i \in 1..10 : AsciiDigits[i] = c) - 1

RECURSIVE Str(_)
Str(t) == IF t = <<>> THEN "" ELSE t[1] \o Str(Tail(t))

\* the greatest triple of a set of triples, first parts compared first: the
\* match a greedy regex settles on
Greediest(M) ==
    CHOOSE m \in M : \A n \in M :
        \/ m[1] > n[1]
        \/ m[1] = n[1] /\ m[2] > n[2]
        \/ m[1] = n[1] /\ m[2] = n[2] /\ m[3] >= n[3]

\* LOCATION_RE  ^\s*(?P<municipality>[^:]+):\s+(?P<organization>.+)$
\* <<a, b, c>>: \s* takes 1..a, [^:]+ takes a+1..b, ':' is at b+1, \s+ takes
\* b+2..c and .+ takes c+1..Len(t)
LocationMatches(t) ==
    {m \in (0..Len(t)) \X (1..Len(t)) \X (1..Len(t)) :
        /\ \A i \in 1..m[1] : IsSpace(t[i])
        /\ m[2] >= m[1] + 1
        /\ \A i \in (m[1] + 1)..m[2] : t[i] # ":"
        /\ m[2] + 1 <= Len(t)
        /\ t[m[2] + 1] = ":"
        /\ m[3] >= m[2] + 2
        /\ \A i \in (m[2] + 2)..m[3] : IsSpace(t[i])
        /\ m[3] + 1 <= Len(t)
        /\ \A i \in (m[3] + 1)..Len(t) : t[i] # "\n"}

\* LOCATION_RE.captures(&location): <<>> or <<the two named groups>>
LocationCaptures(t) ==
    IF LocationMatches(t) = {} THEN <<>>
    ELSE LET m == Greediest(LocationMatches(t)) IN
         <<[municipality |-> SubSeq(t, m[1] + 1, m[2]),
            organization |-> SubSeq(t, m[3] + 1, Len(t))]>>

\* INFO_RE  ^\s*\((?P<num_available>\d+)
\* <<a, d, d>>: \s* takes 1..a, '(' is at a+1 and \d+ takes a+2..d
\* variant: the digits are optional, as with \d* for \d+
InfoMatches_NoDigits(t) ==
    {m \in (0..Len(t)) \X (1..Len(t)) \X (1..Len(t)) :
        /\ m[3] = m[2]
        /\ \A i \in 1..m[1] : IsSpace(t[i])
        /\ m[1] + 1 <= Len(t)
        /\ t[m[1] + 1] = "("
        /\ m[2] >= m[1] + 1
        /\ \A i \in (m[1] + 2)..m[2] : IsDigit(t[i])}

InfoMatches(t) ==
    {m \in (0..Len(t)) \X (1..Len(t)) \X (1..Len(t)) :
        /\ m[3] = m[2]
        /\ \A i \in 1..m[1] : IsSpace(t[i])
        /\ m[1] + 1 <= Len(t)
        /\ t[m[1] + 1] = "("
        /\ m[2] >= m[1] + 2
        /\ \A i \in (m[1] + 2)..m[2] : IsDigit(t[i])}

\* INFO_RE.captures(&info): <<>> or <<the digits>>
InfoCaptures(t) ==
    IF InfoMatches(t) = {} THEN <<>>
    ELSE LET m == Greediest(InfoMatches(t)) IN <<SubSeq(t, m[1] + 2, m[2])>>

\* u64::MAX = 18446744073709551615, digit by digit
U64MaxDigits == <<1, 8, 4, 4, 6, 7, 4, 4, 0, 7, 3, 7, 0, 9, 5, 5, 1, 6, 1, 5>>

RECURSIVE StripZeros(_)
StripZeros(ds) ==
    IF Len(ds) > 1 /\ ds[1] = "0" THEN StripZeros(Tail(ds)) ELSE ds

\* the value of s does not exceed u64::MAX (s: ASCII digits, no leading zeros)
FitsU64(s) ==
    \/ Len(s) < Len(U64MaxDigits)
    \/ /\ Len(s) = Len(U64MaxDigits)
       /\ \/ \A i \in 1..Len(s) : DigitValue(s[i]) = U64MaxDigits[i]
          \/ \E i \in 1..Len(s) :
                 /\ DigitValue(s[i]) < U64MaxDigits[i]
                 /\ \A j \in 1..(i - 1) : DigitValue(s[j]) = U64MaxDigits[j]

RECURSIVE DecimalValue(_, _)
DecimalValue(acc, s) ==
    IF s = <<>> THEN acc
    ELSE DecimalValue(10 * acc + DigitValue(s[1]), Tail(s))

\* str::parse::<u64>(): <<>> for Err, <<n>> for Ok(n); the digit strings of the
\* input domain that fit stay far below the model checker's own integers
ParseU64(ds) ==
    IF \E i \in 1..Len(ds) : ~IsAsciiDigit(ds[i]) THEN <<>>
    ELSE IF ~FitsU64(StripZeros(ds)) THEN <<>>
    ELSE <<DecimalValue(0, StripZeros(ds))>>

\* block.select(..).next(): the first element found, if any
FirstOf(elements) == IF elements = <<>> THEN <<>> ELSE <<elements[1]>>

\* get_available_location: "none" (skip), "some" (a record) or "panic"
\* (the unwrap of a failed parse)
get_available_location(block) ==
    LET location == FirstOf(block.h3)
        link == IF block.a = <<>> THEN <<>> ELSE block.a[1]
        info == FirstOf(block.span)
    IN IF location = <<>> \/ link = <<>> \/ info = <<>> THEN [tag |-> "none"]
       ELSE LET location_captures == LocationCaptures(location[1])
                info_captures == InfoCaptures(info[1])
            IN IF location_captures = <<>> \/ info_captures = <<>>
               THEN [tag |-> "none"]
               ELSE LET num_available == ParseU64(info_captures[1]) IN
                    IF num_available = <<>> THEN [tag |-> "panic"]
                    ELSE [tag |-> "some",
                          location |->
                            [municipality |->
                                 Str(location_captures[1].municipality),
                             organization |->
                                 Str(location_captures[1].organization),
                             booking_link |-> link[1],
                             num_available |-> num_available[1]]]

\* variant: the extraction gives up at the first block that is skipped
RECURSIVE FlatMap_StopAtSkip(_, _, _)
FlatMap_StopAtSkip(doc, i, acc) ==
    IF i > Len(doc) THEN [tag |-> "ok", locations |-> acc]
    ELSE LET r == get_available_location(doc[i]) IN
         IF r.tag = "panic" THEN [tag |-> "panic"]
         ELSE IF r.tag = "none" THEN [tag |-> "ok", locations |-> acc]
         ELSE FlatMap_StopAtSkip(doc, i + 1, Append(acc, r.location))

\* document.select(..).flat_map(get_available_location).collect(), from block
\* i on: "ok" with the records, or "panic"
RECURSIVE FlatMap(_, _, _)
FlatMap(doc, i, acc) ==
    IF i > Len(doc) THEN [tag |-> "ok", locations |-> acc]
    ELSE LET r == get_available_location(doc[i]) IN
         IF r.tag = "panic" THEN [tag |-> "panic"]
         ELSE FlatMap(doc, i + 1,
                      IF r.tag = "some" THEN Append(acc, r.location) ELSE acc)

\* get_available once the body is fetched
get_available(doc) == FlatMap(doc, 1, <<>>)

\* ------------------------------------------------------ documents to parse
Headings ==
    {<<"A", "l", "e", ":", " ", "A">>,
     <<" ", "A", "l", "e", ":", " ", "\n", "A">>,
     <<"A", "l", "e", " ", ":", " ", "A">>,
     <<"A", "l", "e", ":", " ", "A", " ">>,
     <<"A", "l", "e", ":", " ", "A", "\n">>,
     <<"A", "l", "e", ":", " ", "A", ":", " ", "B">>,
     <<"A", "l", "e", ":", "A">>,
     <<"A", "l", "e">>,
     <<":", " ", "A">>}
Infos ==
    {<<"(", "1", " ", "t", ")">>,
     <<" ", "(", "1", "2", ")">>,
     <<"(", "0", "0", "7">>,
     <<"3", ")">>,
     <<"(", "x">>,
     <<"(", " ", "3">>,
     <<"(", ArabicIndicThree>>,
     <<"(", "1", "8", "4", "4", "6", "7", "4", "4", "0", "7", "3", "7", "0",
       "9", "5", "5", "1", "6", "1", "6">>}
H3Lists == {<<>>} \cup {<<t>> : t \in Headings}
           \cup {<<<<"A", "l", "e">>, <<"A", "l", "e", ":", " ", "A">>>>}
ALists == {<<>>, << <<>> >>, << <<"L1">> >>, << <<>>, <<"L1">> >>,
           << <<"L2">>, <<"L1">> >>}
SpanLists == {<<>>} \cup {<<t>> : t \in Infos}
             \cup {<<<<"3", ")">>, <<"(", "1", " ", "t", ")">>>>}
Blocks == [h3 : H3Lists, a : ALists, span : SpanLists]

\* the blocks of the documents that hold several
PageBlocks ==
    [h3 : {<<<<"A", "l", "e", ":", " ", "A">>>>,
           <<<<"a", "l", "e", ":", " ", "B">>>>,
           <<<<"A", "l", "e">>>>},
     a : {<< <<"L1">> >>, << <<>> >>},
     span : {<<<<"(", "1", " ", "t", ")">>>>, <<<<"(", "0", "0", "7">>>>,
             <<<<"(", ArabicIndicThree>>>>}]

Documents == {<<b>> : b \in Blocks} \cup SeqsUpTo(PageBlocks, MaxBlocks)

\* ------------------------------------------------- snapshot & diff engine
\* variant: the entry is inserted when vacant but never modified when occupied
EntryUpdate_InsertOnly(m, location) ==
    LET k == key(location) IN
    IF k \in DOMAIN m
    THEN m
    ELSE [x \in DOMAIN m \cup {k} |-> IF x = k THEN location ELSE m[x]]

\* HashMap::entry(k).and_modify(..).or_insert_with(..) : the map after it
EntryUpdate(m, location) ==
    LET k == key(location) IN
    IF k \in DOMAIN m
    THEN [m EXCEPT ![k].num_available = location.num_available]
    ELSE [x \in DOMAIN m \cup {k} |-> IF x = k THEN location ELSE m[x]]

\* variant: every record is pushed, whatever the old count
EntryChanged_Always(m, ch, location) == Append(ch, location)

\* variant: an occupied entry is compared with > instead of !=
EntryChanged_Greater(m, ch, location) ==
    LET k == key(location) IN
    IF k \in DOMAIN m
    THEN IF location.num_available > m[k].num_available
         THEN Append(ch, location) ELSE ch
    ELSE Append(ch, location)

\* variant: or_insert_with inserts without pushing
EntryChanged_NoNew(m, ch, location) ==
    LET k == key(location) IN
    IF k \in DOMAIN m
    THEN IF m[k].num_available # location.num_available
         THEN Append(ch, location) ELSE ch
    ELSE ch

\* variant: and_modify pushes the updated old entry instead of the new record
EntryChanged_PushOld(m, ch, location) ==
    LET k == key(location) IN
    IF k \in DOMAIN m
    THEN IF m[k].num_available # location.num_available
         THEN Append(ch, [m[k] EXCEPT !.num_available = location.num_available])
         ELSE ch
    ELSE Append(ch, location)

\* the two closures' pushes onto changed_locations
EntryChanged(m, ch, location) ==
    LET k == key(location) IN
    IF k \in DOMAIN m
    THEN IF m[k].num_available # location.num_available
         THEN Append(ch, location) ELSE ch
    ELSE Append(ch, location)

\* the for loop over locations.iter(), from index i on
RECURSIVE ReconcileLoop(_, _, _, _)
ReconcileLoop(m, ch, locs, i) ==
    IF i > Len(locs) THEN [snapshot |-> m, changed |-> ch]
    ELSE ReconcileLoop(EntryUpdate(m, locs[i]),
                       EntryChanged(m, ch, locs[i]), locs, i + 1)

\* variant: the snapshot is rebuilt from the page alone
reconcile_Fresh(m, locs) ==
    [snapshot |-> ReconcileLoop(<<>>, <<>>, locs, 1).snapshot,
     changed |-> ReconcileLoop(m, <<>>, locs, 1).changed]

reconcile(m, locs) == ReconcileLoop(m, <<>>, locs, 1)

\* ------------------------------------------------------ presentation/ranking
\* variant: the key is reversed (largest count first)
sort_key_Reversed(l) == 0 - l.num_available

sort_key(l) == l.num_available

\* variant: x goes before the elements of equal key
RECURSIVE InsertStable_Before(_, _)
InsertStable_Before(s, x) ==
    IF s = <<>> THEN <<x>>
    ELSE IF sort_key(s[Len(s)]) < sort_key(x) THEN Append(s, x)
    ELSE Append(InsertStable_Before(SubSeq(s, 1, Len(s) - 1), x), s[Len(s)])

\* insert x into the sorted sequence s after every element whose key is <= x's
RECURSIVE InsertStable(_, _)
InsertStable(s, x) ==
    IF s = <<>> THEN <<x>>
    ELSE IF sort_key(s[Len(s)]) <= sort_key(x) THEN Append(s, x)
    ELSE Append(InsertStable(SubSeq(s, 1, Len(s) - 1), x), s[Len(s)])

\* Vec::sort_by_key: a stable sort by the key
RECURSIVE SortFrom(_, _, _)
SortFrom(acc, s, i) ==
    IF i > Len(s) THEN acc ELSE SortFrom(InsertStable(acc, s[i]), s, i + 1)

sort_by_key(s) == SortFrom(<<>>, s, 1)

\* variant: the names are compared ignoring ASCII case
AsciiLower(s) ==
    CASE s = "Ale" -> "ale"
      [] s = "Göteborg" -> "göteborg"
      [] s = "Kungälv" -> "kungälv"
      [] s = "Mölndal" -> "mölndal"
      [] OTHER -> s
IsAllowed_IgnoreCase(l) ==
    AsciiLower(l.municipality) \in {AsciiLower(m) : m \in MUNICIPALITIES}

IsAllowed(l) == l.municipality \in MUNICIPALITIES

filter(s) == SelectSeq(s, IsAllowed)

FilteredMessage(nChanged, nFiltered) ==
    IF nChanged > nFiltered
    THEN IF nChanged - nFiltered = 1
         THEN <<"Filtered 1 location.">>
         ELSE <<"Filtered", nChanged - nFiltered, "locations.">>
    ELSE <<>>

\* variant: the first-run flag is not consulted
HookCalls_NoFlag(filtered, first) ==
    IF filtered # <<>> THEN <<filtered[1].booking_link>> ELSE <<>>

\* the links handed to open::that in one iteration
HookCalls(filtered, first) ==
    IF filtered # <<>> /\ ~first THEN <<filtered[1].booking_link>> ELSE <<>>

\* ------------------------------------------------------------------ actions
Init ==
    /\ pc = "fetch"
    /\ cycle = 0
    /\ is_first_run = TRUE
    /\ current_locations = <<>>
    /\ locations = <<>>
    /\ changed_locations = <<>>
    /\ filtered_locations = <<>>
    /\ printed = <<>>
    /\ opened = <<>>
    /\ body = <<>>
    /\ last_seen = <<>>
    /\ absent = {}
    /\ reappeared = {}

\* get_available()? succeeded; the for loop ran over its result
\* the for loop over the list page that get_available returned
Reconciled(page) ==
    /\ pc = "fetch"
    /\ cycle < MaxCycles
    /\ LET r == reconcile(current_locations, page) IN
         /\ locations' = page
         /\ current_locations' = r.snapshot
         /\ changed_locations' = r.changed
    /\ cycle' = cycle + 1
    /\ pc' = "rank"
    /\ UNCHANGED <<is_first_run, filtered_locations, printed, opened>>

FetchAndReconcile ==
    /\ pc = "fetch"
    /\ \E page \in Pages : Reconciled(page)
    /\ UNCHANGED <<body, last_seen, absent, reappeared>>

\* bookkeeping of what the pages held, kept beside the program's own state
Tracked(page) ==
    /\ last_seen' = [k \in DOMAIN last_seen \cup KeysOf(page) |->
                        IF k \in KeysOf(page)
                        THEN page[LastOf(page, k)].num_available
                        ELSE last_seen[k]]
    /\ absent' = (DOMAIN last_seen \cup KeysOf(page)) \ KeysOf(page)
    /\ reappeared' = absent \cap KeysOf(page)

\* FetchAndReconcile with the bookkeeping
FetchAndTrack ==
    /\ pc = "fetch"
    /\ \E page \in Pages : Reconciled(page) /\ Tracked(page)
    /\ UNCHANGED body

\* variant: the flag is cleared before the fetch
FetchFail_ClearsFlag ==
    /\ pc = "fetch"
    /\ cycle < MaxCycles
    /\ cycle' = cycle + 1
    /\ pc' = "exited"
    /\ is_first_run' = FALSE
    /\ UNCHANGED <<current_locations, locations,
                   changed_locations, filtered_locations, printed, opened,
                   body, last_seen, absent, reappeared>>

\* get_available()? returned Err: main returns it
FetchFail ==
    /\ pc = "fetch"
    /\ cycle < MaxCycles
    /\ cycle' = cycle + 1
    /\ pc' = "exited"
    /\ UNCHANGED <<is_first_run, current_locations, locations,
                   changed_locations, filtered_locations, printed, opened,
                   body, last_seen, absent, reappeared>>

\* sort, filter, print, open::that succeeded (or was not called), flag cleared
RankAndAct ==
    /\ pc = "rank"
    /\ LET sorted == sort_by_key(changed_locations)
           filtered == filter(sorted) IN
       /\ changed_locations' = sorted
       /\ filtered_locations' = filtered
       /\ printed' = FilteredMessage(Len(sorted), Len(filtered))
       /\ opened' = HookCalls(filtered, is_first_run)
    /\ is_first_run' = FALSE
    /\ pc' = "sleep"
    /\ UNCHANGED <<cycle, current_locations, locations,
                   body, last_seen, absent, reappeared>>

\* as RankAndAct, but open::that(..)? returned Err: main returns it
RankAndOpenFail ==
    /\ pc = "rank"
    /\ LET sorted == sort_by_key(changed_locations)
           filtered == filter(sorted) IN
       /\ HookCalls(filtered, is_first_run) # <<>>
       /\ changed_locations' = sorted
       /\ filtered_locations' = filtered
       /\ printed' = FilteredMessage(Len(sorted), Len(filtered))
       /\ opened' = HookCalls(filtered, is_first_run)
    /\ pc' = "exited"
    /\ UNCHANGED <<cycle, is_first_run, current_locations, locations,
                   body, last_seen, absent, reappeared>>

\* thread::sleep returned; the iteration's locals are dropped and the loop
\* starts over
SleepAndLoop ==
    /\ pc = "sleep"
    /\ locations' = <<>>
    /\ changed_locations' = <<>>
    /\ filtered_locations' = <<>>
    /\ printed' = <<>>
    /\ opened' = <<>>
    /\ body' = <<>>
    /\ reappeared' = {}
    /\ pc' = "fetch"
    /\ UNCHANGED <<cycle, is_first_run, current_locations, last_seen, absent>>

Next ==
    \/ FetchAndReconcile
    \/ FetchFail
    \/ RankAndAct
    \/ RankAndOpenFail
    \/ SleepAndLoop

Spec == Init /\ [][Next]_vars

\* the same loop with the bookkeeping of the pages
NextTracked ==
    \/ FetchAndTrack
    \/ FetchFail
    \/ RankAndAct
    \/ RankAndOpenFail
    \/ SleepAndLoop

SpecTracked == Init /\ [][NextTracked]_vars

\* the loop fed with the pages of KeyPages
FetchKeysAndReconcile ==
    /\ pc = "fetch"
    /\ \E page \in KeyPages : Reconciled(page)
    /\ UNCHANGED <<body, last_seen, absent, reappeared>>

NextKeys ==
    \/ FetchKeysAndReconcile
    \/ FetchFail
    \/ RankAndAct
    \/ RankAndOpenFail
    \/ SleepAndLoop

SpecKeys == Init /\ [][NextKeys]_vars

\* get_available applied to a fetched body: the first iteration, up to the
\* end of the for loop
InitParse ==
    /\ pc = "fetch"
    /\ cycle = 0
    /\ is_first_run = TRUE
    /\ current_locations = <<>>
    /\ locations = <<>>
    /\ changed_locations = <<>>
    /\ filtered_locations = <<>>
    /\ printed = <<>>
    /\ opened = <<>>
    /\ body \in Documents
    /\ last_seen = <<>>
    /\ absent = {}
    /\ reappeared = {}

\* every block was skipped or gave a record; the for loop ran over the records
ExtractAndReconcile ==
    /\ pc = "fetch"
    /\ get_available(body).tag = "ok"
    /\ Reconciled(get_available(body).locations)
    /\ UNCHANGED <<body, last_seen, absent, reappeared>>

\* the unwrap at main.rs:178 panicked: the thread unwinds out of main
ExtractPanic ==
    /\ pc = "fetch"
    /\ get_available(body).tag = "panic"
    /\ cycle' = cycle + 1
    /\ pc' = "panicked"
    /\ UNCHANGED <<is_first_run, current_locations, locations,
                   changed_locations, filtered_locations, printed, opened,
                   body, last_seen, absent, reappeared>>

NextParse == ExtractAndReconcile \/ ExtractPanic

SpecParse == InitParse /\ [][NextParse]_vars


\* ------------------------------------------------------------ vocabulary
FetchStep == pc = "fetch" /\ pc' = "rank"
RankStep == pc = "rank" /\ pc' \in {"sleep", "exited"}

Range(L) == {L[i] : i \in 1..Len(L)}
Entries(m) == {m[k] : k \in DOMAIN m}
DistinctKeys(L) ==
    \A i, j \in 1..Len(L) : key(L[i]) = key(L[j]) => i = j
SameCountPerKey(L) ==
    \A i, j \in 1..Len(L) :
        key(L[i]) = key(L[j]) => L[i].num_available = L[j].num_available

\* the elements of L at the indices I, in increasing index order
Pick(L, I) ==
    [n \in 1..Cardinality(I) |->
        L[CHOOSE i \in I : Cardinality({j \in I : j <= i}) = n]]

\* indices of the earlier records of L with the key of L[i]
Earlier(L, i) == {j \in 1..(i - 1) : key(L[j]) = key(L[i])}

\* L[i] meets a map without its key when it is processed
AbsentAt(S, L, i) == key(L[i]) \notin DOMAIN S /\ Earlier(L, i) = {}
\* the count the map holds for L[i]'s key when L[i] is processed
CountAt(S, L, i) ==
    IF Earlier(L, i) # {} THEN L[Last(Earlier(L, i))].num_available
    ELSE S[key(L[i])].num_available
DiffersAt(S, L, i) ==
    AbsentAt(S, L, i) \/ CountAt(S, L, i) # L[i].num_available

\* ------------------------------------------------------------------- C1
\* C1 (as stated): reconciling the page again against the snapshot that its
\* own reconcile produced reports no change, for every page.
C1_IdempotentAnyList ==
    pc = "rank" => reconcile(current_locations, locations).changed = <<>>

\* C1 (amended): the rerun reports no change when the records of the page
\* that share a key all carry the same count.
C1_IdempotentSameCounts ==
    (pc = "rank" /\ SameCountPerKey(locations))
        => reconcile(current_locations, locations).changed = <<>>

C1_Witness ==
    /\ pc = "rank"
    /\ cycle >= 2
    /\ Len(locations) = 2
    /\ SameCountPerKey(locations)
    /\ ~DistinctKeys(locations)
    /\ locations[1].booking_link # locations[2].booking_link
    /\ changed_locations = <<locations[1]>>

\* ------------------------------------------------------------------- C2
\* C2: changed_locations, before sorting, is the subsequence of the page made
\* of the records whose key is absent when they are processed or whose count
\* differs from the entry then held for the key.
C2_ChangedIsDiffSubsequence ==
    [][FetchStep =>
        changed_locations' =
            Pick(locations', {i \in 1..Len(locations') :
                                 DiffersAt(current_locations, locations', i)})]_vars

C2_Witness ==
    /\ pc = "rank"
    /\ cycle >= 2
    /\ Len(locations) = 2
    /\ changed_locations = <<locations[2]>>
    /\ key(locations[1]) = key(locations[2])

\* ------------------------------------------------------------------- C3
\* C3 (as stated): from an empty snapshot, every non-empty page comes back as
\* changed_locations and the snapshot holds exactly its records.
C3_EmptySnapshotAnyList ==
    [][(FetchStep /\ current_locations = <<>> /\ locations' # <<>>) =>
        /\ changed_locations' = locations'
        /\ Entries(current_locations') = Range(locations')]_vars

\* C3 (amended): the same, for a non-empty page whose keys are pairwise
\* distinct.
C3_EmptySnapshotDistinctKeys ==
    [][(FetchStep /\ current_locations = <<>> /\ locations' # <<>>
          /\ DistinctKeys(locations')) =>
        /\ changed_locations' = locations'
        /\ Entries(current_locations') = Range(locations')]_vars

C3_Witness ==
    /\ pc = "rank"
    /\ cycle = 1
    /\ Len(locations) = 2
    /\ DistinctKeys(locations)
    /\ changed_locations = locations
    /\ Entries(current_locations) = Range(locations)

\* ------------------------------------------------------------------- C4
\* C4: a record whose key is in the snapshot with a different count is
\* appended to changed_locations and replaces the entry, count and
\* booking_link (stated for a key that the page holds once, so that the entry
\* after the loop is the one this record left).
C4_ChangedOverwritesEntry ==
    [][FetchStep =>
        \A i \in 1..Len(locations') :
            LET l == locations'[i] IN
            (/\ key(l) \in DOMAIN current_locations
             /\ current_locations[key(l)].num_available # l.num_available
             /\ \A j \in 1..Len(locations') : key(locations'[j]) = key(l) => j = i)
            => /\ l \in Range(changed_locations')
               /\ current_locations'[key(l)] = l]_vars

\* ------------------------------------------------------------------- C5
\* C5: a record whose key is in the snapshot with the same count and another
\* booking_link is not appended to changed_locations, and the entry's
\* booking_link becomes the record's (stated for a key the page holds once).
C5_StableCountUpdatesLink ==
    [][FetchStep =>
        \A i \in 1..Len(locations') :
            LET l == locations'[i] IN
            (/\ key(l) \in DOMAIN current_locations
             /\ current_locations[key(l)].num_available = l.num_available
             /\ current_locations[key(l)].booking_link # l.booking_link
             /\ \A j \in 1..Len(locations') : key(locations'[j]) = key(l) => j = i)
            => /\ \A c \in 1..Len(changed_locations') :
                      key(changed_locations'[c]) # key(l)
               /\ current_locations'[key(l)].booking_link = l.booking_link]_vars

\* ------------------------------------------------------------------- C6
\* C6: no step removes a snapshot key, every entry is stored under its own
\* key (one entry per key), and a reconcile leaves alone the entries whose
\* key is not on the page.
C6_EntriesNeverRemoved ==
    [][/\ DOMAIN current_locations \subseteq DOMAIN current_locations'
       /\ \A k \in DOMAIN current_locations' : key(current_locations'[k]) = k
       /\ \A k \in DOMAIN current_locations :
              (~FetchStep \/ k \notin KeysOf(locations'))
                  => current_locations'[k] = current_locations[k]]_vars

C6_Witness ==
    /\ pc = "rank"
    /\ cycle >= 2
    /\ locations # <<>>
    /\ Cardinality(DOMAIN current_locations) = 2
    /\ \E k \in DOMAIN current_locations : k \notin KeysOf(locations)

\* ------------------------------------------------------------------- C7
\* C7: after a reconcile every entry's count is the count of the last record
\* of the page with its key, and the count it had before when the page has no
\* record with its key.
C7_CountIsLatest ==
    [][FetchStep =>
        \A k \in DOMAIN current_locations' :
            current_locations'[k].num_available =
                IF k \in KeysOf(locations')
                THEN locations'[LastOf(locations', k)].num_available
                ELSE current_locations[k].num_available]_vars

C7_Witness ==
    /\ pc = "rank"
    /\ cycle >= 2
    /\ Len(locations) = 2
    /\ key(locations[1]) = key(locations[2])
    /\ locations[1].num_available # locations[2].num_available
    /\ current_locations[key(locations[2])].num_available
           = locations[2].num_available
    /\ \E k \in DOMAIN current_locations : k \notin KeysOf(locations)

\* ------------------------------------------------------------------- C8
\* C8: nothing is handed to the action hook in the first iteration, and
\* is_first_run is true exactly until the first iteration has ranked and acted.
C8_FirstCycleSuppressed ==
    /\ cycle <= 1 => opened = <<>>
    /\ is_first_run <=> (cycle = 0 \/ (cycle = 1 /\ pc \in {"rank", "exited"}))

C8_Witness ==
    /\ pc = "sleep"
    /\ cycle = 1
    /\ filtered_locations # <<>>
    /\ opened = <<>>
    /\ ~is_first_run

StableSortedBy(p, inp, out) ==
    /\ \A i \in 1..Len(out) : out[i] = inp[p[i]]
    /\ \A i, j \in 1..Len(out) :
           i < j => /\ out[i].num_available <= out[j].num_available
                    /\ out[i].num_available = out[j].num_available
                           => p[i] < p[j]

Bijections(n) == {p \in [1..n -> 1..n] : \A i, j \in 1..n : p[i] = p[j] => i = j}

\* C10: ranking leaves changed_locations a permutation of what it was, with
\* non-decreasing counts and with records of equal count in their old order.
C10_SortStableAscending ==
    [][RankStep =>
        /\ Len(changed_locations') = Len(changed_locations)
        /\ \E p \in Bijections(Len(changed_locations)) :
               StableSortedBy(p, changed_locations, changed_locations')]_vars

C10_Witness ==
    /\ pc = "sleep"
    /\ cycle = 1
    /\ Len(locations) = 2
    /\ changed_locations = <<locations[2], locations[1]>>
    /\ changed_locations[1].num_available < changed_locations[2].num_available

\* ------------------------------------------------------------------ C11
AllowedIn(L) == {i \in 1..Len(L) : L[i].municipality \in MUNICIPALITIES}

\* C11: once an iteration has ranked, the primary candidate (the first
\* filtered record) is an allow-listed changed record whose count is the least
\* among the allow-listed changed records, and there is none exactly when no
\* changed record is allow-listed.
C11_PrimaryIsMinAllowed ==
    pc \in {"sleep", "exited"} =>
        IF AllowedIn(changed_locations) = {}
        THEN filtered_locations = <<>>
        ELSE /\ filtered_locations # <<>>
             /\ \E i \in AllowedIn(changed_locations) :
                    filtered_locations[1] = changed_locations[i]
             /\ \A j \in AllowedIn(changed_locations) :
                    filtered_locations[1].num_available
                        <= changed_locations[j].num_available

C11_Witness ==
    /\ pc = "sleep"
    /\ Len(filtered_locations) = 2
    /\ filtered_locations[1].num_available < filtered_locations[2].num_available
    /\ locations = <<filtered_locations[2], filtered_locations[1]>>

\* ------------------------------------------------------------------ C12
\* C12: once an iteration has ranked, the filtered list is the sorted changed
\* list restricted to the records whose municipality is literally one of Ale,
\* Göteborg, Kungälv, Mölndal, and the message is absent for N = 0, singular
\* for N = 1 and plural with N for N >= 2, N being the number of records
\* dropped.
C12_FilterAndMessage ==
    pc \in {"sleep", "exited"} =>
        LET keep == {i \in 1..Len(changed_locations) :
                        changed_locations[i].municipality
                            \in {"Ale", "Göteborg", "Kungälv", "Mölndal"}}
            N == Len(changed_locations) - Cardinality(keep)
        IN /\ filtered_locations = Pick(changed_locations, keep)
           /\ printed = CASE N = 0 -> <<>>
                          [] N = 1 -> <<"Filtered 1 location.">>
                          [] OTHER -> <<"Filtered", N, "locations.">>

C12_Witness ==
    /\ pc = "sleep"
    /\ Len(changed_locations) = 2
    /\ changed_locations[1].municipality = "ale"
    /\ changed_locations[2].municipality = "Ale"
    /\ filtered_locations = <<changed_locations[2]>>
    /\ printed = <<"Filtered 1 location.">>

\* ------------------------------------------------------------------ C16
\* C16: the step in which the fetch fails leaves the snapshot and the
\* first-run flag as they were, shows no changed record and hands nothing to
\* the hook.
C16_FetchFailureTouchesNothing ==
    [][(pc = "fetch" /\ pc' = "exited") =>
        /\ current_locations' = current_locations
        /\ is_first_run' = is_first_run
        /\ changed_locations' = <<>>
        /\ filtered_locations' = <<>>
        /\ printed' = <<>>
        /\ opened' = <<>>]_vars

C16_Witness ==
    /\ pc = "exited"
    /\ locations = <<>>
    /\ cycle = 2
    /\ Cardinality(DOMAIN current_locations) = 2
    /\ ~is_first_run
    /\ opened = <<>>

\* ------------------------------------------------------------------ C17
\* C17: the loop never stops on its own, a failed fetch or a failed hook
\* included.
C17_LoopNeverStops == pc # "exited"

\* ------------------------------------------------------------------ C20
\* the indices of L with key k, and those among them whose count differs from
\* the record of the same key just before them in L
IndicesOf(L, k) == {i \in 1..Len(L) : key(L[i]) = k}
First(J) == CHOOSE j \in J : \A x \in J : j <= x
LaterDiffs(L, k) ==
    {i \in IndicesOf(L, k) :
        /\ Earlier(L, i) # {}
        /\ L[i].num_available # L[Last(Earlier(L, i))].num_available}

\* C20: when a key seen in an earlier iteration and missing from the previous
\* page is on the page again, its first record is reported in
\* changed_locations exactly when its count differs from the count last seen
\* for the key.
C20_ReappearanceReportedIffCountDiffers ==
    [][FetchStep =>
        \A k \in absent \cap KeysOf(locations') :
            LET reported == Cardinality(IndicesOf(changed_locations', k))
                               - Cardinality(LaterDiffs(locations', k))
                first == locations'[First(IndicesOf(locations', k))]
            IN /\ reported \in {0, 1}
               /\ reported = 1 <=> first.num_available # last_seen[k]]_vars

C20_Witness ==
    /\ pc = "rank"
    /\ cycle >= 3
    /\ \E k \in reappeared :
           /\ k \in KeysOf(locations)
           /\ k \notin KeysOf(changed_locations)
    /\ changed_locations # <<>>

\* ------------------------------------------------------------------ C18
\* (region, organization) pairs equal part by part, case-sensitively
SameKeyOrdered(a, b) ==
    a.municipality = b.municipality /\ a.organization = b.organization
\* (region, organization) pairs equal case-sensitively in either order
SameKeyUnordered(a, b) ==
    \/ SameKeyOrdered(a, b)
    \/ a.municipality = b.organization /\ a.organization = b.municipality

\* the number of groups into which the relation R splits the set S
NumClasses(R(_, _), S) == Cardinality({{y \in S : R(x, y)} : x \in S})

\* after a reconcile the snapshot has one entry per group of R-equal records
\* among its old entries and the page, and every page record has an entry
\* R-equal to it that holds the count of the last page record R-equal to it
OneEntryPerClass(R(_, _)) ==
    /\ Cardinality(DOMAIN current_locations')
           = NumClasses(R, Entries(current_locations) \cup Range(locations'))
    /\ \A i \in 1..Len(locations') :
           \E e \in Entries(current_locations') :
               /\ R(e, locations'[i])
               /\ e.num_available =
                      locations'[Last({j \in 1..Len(locations') :
                                          R(locations'[j], locations'[i])})]
                          .num_available

\* C18 (as stated): reconcile puts two locations in the same snapshot entry
\* exactly when their (region, organization) pairs are equal case-sensitively
\* in either order.
C18_SameEntryIffUnorderedKey ==
    [][FetchStep => OneEntryPerClass(SameKeyUnordered)]_vars

\* C18 (amended): ... exactly when their pairs are equal case-sensitively part
\* by part, region with region and organization with organization.
C18_SameEntryIffOrderedKey ==
    [][FetchStep => OneEntryPerClass(SameKeyOrdered)]_vars

C18_Witness ==
    /\ pc = "rank"
    /\ cycle >= 2
    /\ Len(locations) = 2
    /\ key(locations[1]) = <<"Ale", "ale">>
    /\ key(locations[2]) = <<"ale", "Ale">>
    /\ locations[1].num_available # locations[2].num_available
    /\ current_locations[<<"Ale", "ale">>].num_available
           = locations[1].num_available
    /\ current_locations[<<"ale", "Ale">>].num_available
           = locations[2].num_available
    /\ Cardinality(DOMAIN current_locations) = 4

\* ------------------------------------------------- C13, C14, C15, C19
\* the heading text has the label form: a first colon with something before
\* it, whitespace after it, and after that whitespace a remainder without a
\* line break
LabelForm(t) ==
    \E p \in 2..Len(t) :
        /\ t[p] = ":"
        /\ \A i \in 1..(p - 1) : t[i] # ":"
        /\ \E c \in (p + 1)..(Len(t) - 1) :
               /\ \A i \in (p + 1)..c : IsSpace(t[i])
               /\ \A i \in (c + 1)..Len(t) : t[i] # "\n"

\* the annotation text starts with '(' and a digit
StartsWithParenDigit(t) == Len(t) >= 2 /\ t[1] = "(" /\ IsDigit(t[2])
\* the same after leading whitespace
StartsWithParenDigitAfterSpace(t) ==
    \E a \in 0..Len(t) :
        /\ \A i \in 1..a : IsSpace(t[i])
        /\ StartsWithParenDigit(SubSeq(t, a + 1, Len(t)))

HasHref(b) == \E i \in 1..Len(b.a) : b.a[i] # <<>>

\* the block is one the Record Parser has to skip, Annotation(_) saying what an
\* acceptable annotation text is
Declined(b, Annotation(_)) ==
    \/ b.h3 = <<>>
    \/ ~HasHref(b)
    \/ b.span = <<>>
    \/ ~LabelForm(b.h3[1])
    \/ ~Annotation(b.span[1])

\* no block to skip yields anything: the records are at most as many as the
\* other blocks and each is complete, and a panic needs one of the other blocks
NothingFromDeclined(Annotation(_)) ==
    LET others == {i \in 1..Len(body) : ~Declined(body[i], Annotation)} IN
    /\ pc = "rank" =>
           /\ Len(locations) <= Cardinality(others)
           /\ \A n \in 1..Len(locations) :
                  /\ locations[n].municipality # ""
                  /\ locations[n].organization # ""
                  /\ \E i \in others :
                         <<locations[n].booking_link>> = body[i].a[1]
    /\ pc = "panicked" => others # {}

\* C13 (as stated): a block without heading, without a link with an href,
\* without annotation, with a heading text not of the label form or with an
\* annotation text that does not start with '(' and digits gives no record.
C13_DeclinedBlocksSkipped == NothingFromDeclined(StartsWithParenDigit)

\* C13 (amended): the same, the annotation text being allowed whitespace
\* before the '('.
C13_DeclinedBlocksSkippedAfterSpace ==
    NothingFromDeclined(StartsWithParenDigitAfterSpace)

C13_Witness ==
    /\ pc = "rank"
    /\ Len(body) = 1
    /\ body[1].h3 = <<<<"A", "l", "e", ":", " ", "A">>>>
    /\ body[1].a = << <<"L1">> >>
    /\ body[1].span = <<<<"3", ")">>>>
    /\ locations = <<>>

\* ------------------------------------------------------------------ C14
\* t without its trailing whitespace
RECURSIVE TrimEnd(_)
TrimEnd(t) ==
    IF t # <<>> /\ IsSpace(t[Len(t)]) THEN TrimEnd(SubSeq(t, 1, Len(t) - 1))
    ELSE t
RECURSIVE TrimStart(_)
TrimStart(t) ==
    IF t # <<>> /\ IsSpace(t[1]) THEN TrimStart(Tail(t)) ELSE t
Trim(t) == TrimStart(TrimEnd(t))
FirstColon(t) == First({p \in 1..Len(t) : t[p] = ":"})
RegionOf(t) == Trim(SubSeq(t, 1, FirstColon(t) - 1))
OrganizationOf(t) == Trim(SubSeq(t, FirstColon(t) + 1, Len(t)))
\* the digits that follow the '(' of an annotation text
LeadingDigits(t) ==
    SubSeq(t, 2, Last({d \in 1..Len(t) : \A i \in 2..d : IsAsciiDigit(t[i])}))

\* a heading "<region>: <organization>" with both parts present, a link with
\* an href and an annotation "(<N>" with N of at most nine digits
WellFormed(b) ==
    /\ b.h3 # <<>>
    /\ \E p \in 1..Len(b.h3[1]) :
           /\ b.h3[1][p] = ":"
           /\ p < Len(b.h3[1])
           /\ IsSpace(b.h3[1][p + 1])
    /\ RegionOf(b.h3[1]) # <<>>
    /\ OrganizationOf(b.h3[1]) # <<>>
    /\ HasHref(b)
    /\ b.span # <<>>
    /\ Len(b.span[1]) >= 2
    /\ b.span[1][1] = "("
    /\ IsAsciiDigit(b.span[1][2])
    /\ Len(LeadingDigits(b.span[1])) <= 9

\* C14: a well-formed block gives the Location whose region is the heading
\* text before the first colon and whose organization is the text after it,
\* both trimmed, whose booking_link is the href and whose count is N.
C14_WellFormedBlockParsed ==
    (pc # "fetch" /\ Len(body) = 1 /\ WellFormed(body[1])) =>
        /\ pc = "rank"
        /\ locations =
             <<[municipality |-> Str(RegionOf(body[1].h3[1])),
                organization |-> Str(OrganizationOf(body[1].h3[1])),
                booking_link |->
                    body[1].a[First({i \in 1..Len(body[1].a) :
                                        body[1].a[i] # <<>>})][1],
                num_available |->
                    DecimalValue(0, LeadingDigits(body[1].span[1]))]>>

\* ------------------------------------------------------------------ C15
\* the block reaches the conversion of its digits, and they do not convert
Unconvertible(b) ==
    /\ b.h3 # <<>> /\ b.a # <<>> /\ b.a[1] # <<>> /\ b.span # <<>>
    /\ LabelForm(b.h3[1])
    /\ StartsWithParenDigitAfterSpace(b.span[1])
    /\ ParseU64(InfoCaptures(b.span[1])[1]) = <<>>

\* C15: when the digits of a block do not convert to u64, the extraction ends
\* with an error returned to the caller of get_available (main then returns
\* it), and the snapshot is as it was.
C15_ConversionFailureIsReturnedError ==
    (pc # "fetch" /\ \E i \in 1..Len(body) : Unconvertible(body[i])) =>
        /\ pc = "exited"
        /\ current_locations = <<>>

\* ------------------------------------------------------------------ C19
\* C19: the page is the list of the records of the blocks the Record Parser
\* accepts, in document order, and the extraction fails on no document whose
\* blocks the parser all accepts or declines.
C19_PageIsAcceptedBlocksInOrder ==
    LET accepted == {i \in 1..Len(body) :
                        get_available_location(body[i]).tag = "some"}
        blocks == Pick(body, accepted)
    IN /\ pc = "rank" =>
              locations = [n \in 1..Len(blocks) |->
                               get_available_location(blocks[n]).location]
       /\ (\A i \in 1..Len(body) :
               get_available_location(body[i]).tag # "panic")
              => pc # "panicked"

C19_Witness ==
    /\ pc = "rank"
    /\ Len(body) = 2
    /\ get_available_location(body[1]).tag = "none"
    /\ get_available_location(body[2]).tag = "some"
    /\ Len(locations) = 1
====
